---- MODULE Spec2Model ----
(***************************************************************************)
(* Model of backend/backend_app.py: the in-memory post registry POSTS and  *)
(* the five Flask request handlers that read or mutate it.                 *)
(*                                                                         *)
(* A request value is a pair <<type, payload>>: a str is <<"str", cps>>    *)
(* with cps its sequence of code points, so that str.lower(), the ordering *)
(* of str and the substring test `in` are computed as Python computes      *)
(* them; a JSON number is <<"int", <<n>>>>; a value that is absent         *)
(* (dict.get / args.get returning None) is None.  The body of a request is *)
(* JSON: an object, whose title and content may be numbers, or a value     *)
(* that is not an object (an array, null); query arguments are str.        *)
(* Calling .lower() on a number, or .get() on a body that is not an        *)
(* object, raises AttributeError, which the server answers with status     *)
(* 500.                                                                    *)
(*                                                                         *)
(* app.run serves every request in a thread of its own and the handlers    *)
(* take no lock.  Spec is that server with up to two requests in flight:   *)
(* a handler is a sequence of steps, one for each access it makes to POSTS *)
(* or to a post dict, and the steps of the two threads interleave.  A      *)
(* thread may also take its request when the other is free and run its     *)
(* handler to the end before the next request comes: the executions in     *)
(* which requests are served one after another are among those of Spec.    *)
(***************************************************************************)
EXTENDS Integers, Sequences, FiniteSets

VARIABLES POSTS,      \* the module-level list of post dicts
          request,    \* the request a handler returned from last
          response,   \* what that handler returned: [status, body]
          deleted,    \* history: has a delete_post call removed a post?
          overlapped, \* history: was a request taken while another was served?
          threads     \* the handler call of each thread: its local variables

vars == <<POSTS, request, response, deleted, overlapped, threads>>

\* Most posts the registry may hold: add_post is not called beyond it.
MaxPosts == 3

--------------------------------------------------------------------------
(* Values *)

Str(cps) == <<"str", cps>>
Num(n) == <<"int", <<n>>>>

\* What data.get(key) / request.args.get(key) return for an absent key.
None == <<"none", <<>>>>

is_str(x) == x[1] = "str"

\* "First post", "This is the first post.", "Second post",
\* "This is the second post."
FirstTitle == Str(<<70,105,114,115,116,32,112,111,115,116>>)
FirstContent == Str(<<84,104,105,115,32,105,115,32,116,104,101,32,
                      102,105,114,115,116,32,112,111,115,116,46>>)
SecondTitle == Str(<<83,101,99,111,110,100,32,112,111,115,116>>)
SecondContent == Str(<<84,104,105,115,32,105,115,32,116,104,101,32,
                       115,101,99,111,110,100,32,112,111,115,116,46>>)

\* The literals the handlers compare against: 'title', 'content', 'desc', 'asc'.
StrTitle == Str(<<116,105,116,108,101>>)
StrContent == Str(<<99,111,110,116,101,110,116>>)
StrDesc == Str(<<100,101,115,99>>)
StrAsc == Str(<<97,115,99>>)

\* Request values used as inputs: "", "\u0130" (capital I with dot above),
\* "b", "I", "B", "DESC" and the JSON numbers 5 and 0.
Empty == Str(<<>>)
Str_I_dot == Str(<<304>>)
Str_b == Str(<<98>>)
Str_I == Str(<<73>>)
Str_B == Str(<<66>>)
Str_DESC == Str(<<68,69,83,67>>)
Num_5 == Num(5)
Num_0 == Num(0)

\* str.lower() follows the Unicode character database of the interpreter
\* (Unicode 14.0 in CPython 3.11).  The three tables below are that
\* database's: the cased letters and the code points that case mapping looks
\* through (apostrophe, full stop, accents, combining marks, ...), each as
\* ranges <<first, last>>, and the simple lower-case mappings as
\* <<first, last, step, offset>>: every step-th code point from first to
\* last has its lower case offset above it.
CasedRanges == {
    <<65, 90>>, <<97, 122>>, <<170, 170>>, <<181, 181>>, <<186, 186>>,
    <<192, 214>>, <<216, 246>>, <<248, 442>>, <<444, 447>>, <<452, 659>>,
    <<661, 696>>, <<704, 705>>, <<736, 740>>, <<837, 837>>, <<880, 883>>,
    <<886, 887>>, <<890, 893>>, <<895, 895>>, <<902, 902>>, <<904, 906>>,
    <<908, 908>>, <<910, 929>>, <<931, 1013>>, <<1015, 1153>>,
    <<1162, 1327>>, <<1329, 1366>>, <<1376, 1416>>, <<4256, 4293>>,
    <<4295, 4295>>, <<4301, 4301>>, <<4304, 4346>>, <<4349, 4351>>,
    <<5024, 5109>>, <<5112, 5117>>, <<7296, 7304>>, <<7312, 7354>>,
    <<7357, 7359>>, <<7424, 7615>>, <<7680, 7957>>, <<7960, 7965>>,
    <<7968, 8005>>, <<8008, 8013>>, <<8016, 8023>>, <<8025, 8025>>,
    <<8027, 8027>>, <<8029, 8029>>, <<8031, 8061>>, <<8064, 8116>>,
    <<8118, 8124>>, <<8126, 8126>>, <<8130, 8132>>, <<8134, 8140>>,
    <<8144, 8147>>, <<8150, 8155>>, <<8160, 8172>>, <<8178, 8180>>,
    <<8182, 8188>>, <<8305, 8305>>, <<8319, 8319>>, <<8336, 8348>>,
    <<8450, 8450>>, <<8455, 8455>>, <<8458, 8467>>, <<8469, 8469>>,
    <<8473, 8477>>, <<8484, 8484>>, <<8486, 8486>>, <<8488, 8488>>,
    <<8490, 8493>>, <<8495, 8500>>, <<8505, 8505>>, <<8508, 8511>>,
    <<8517, 8521>>, <<8526, 8526>>, <<8544, 8575>>, <<8579, 8580>>,
    <<9398, 9449>>, <<11264, 11492>>, <<11499, 11502>>, <<11506, 11507>>,
    <<11520, 11557>>, <<11559, 11559>>, <<11565, 11565>>, <<42560, 42605>>,
    <<42624, 42653>>, <<42786, 42887>>, <<42891, 42894>>, <<42896, 42954>>,
    <<42960, 42961>>, <<42963, 42963>>, <<42965, 42969>>, <<42997, 42998>>,
    <<43000, 43002>>, <<43824, 43866>>, <<43868, 43880>>, <<43888, 43967>>,
    <<64256, 64262>>, <<64275, 64279>>, <<65313, 65338>>, <<65345, 65370>>,
    <<66560, 66639>>, <<66736, 66771>>, <<66776, 66811>>, <<66928, 66938>>,
    <<66940, 66954>>, <<66956, 66962>>, <<66964, 66965>>, <<66967, 66977>>,
    <<66979, 66993>>, <<66995, 67001>>, <<67003, 67004>>, <<67456, 67456>>,
    <<67459, 67461>>, <<67463, 67504>>, <<67506, 67514>>, <<68736, 68786>>,
    <<68800, 68850>>, <<71840, 71903>>, <<93760, 93823>>,
    <<119808, 119892>>, <<119894, 119964>>, <<119966, 119967>>,
    <<119970, 119970>>, <<119973, 119974>>, <<119977, 119980>>,
    <<119982, 119993>>, <<119995, 119995>>, <<119997, 120003>>,
    <<120005, 120069>>, <<120071, 120074>>, <<120077, 120084>>,
    <<120086, 120092>>, <<120094, 120121>>, <<120123, 120126>>,
    <<120128, 120132>>, <<120134, 120134>>, <<120138, 120144>>,
    <<120146, 120485>>, <<120488, 120512>>, <<120514, 120538>>,
    <<120540, 120570>>, <<120572, 120596>>, <<120598, 120628>>,
    <<120630, 120654>>, <<120656, 120686>>, <<120688, 120712>>,
    <<120714, 120744>>, <<120746, 120770>>, <<120772, 120779>>,
    <<122624, 122633>>, <<122635, 122654>>, <<125184, 125251>>,
    <<127280, 127305>>, <<127312, 127337>>, <<127344, 127369>> }

CaseIgnorableRanges == {
    <<39, 39>>, <<46, 46>>, <<58, 58>>, <<94, 94>>, <<96, 96>>,
    <<168, 168>>, <<173, 173>>, <<175, 175>>, <<180, 180>>, <<183, 184>>,
    <<688, 879>>, <<884, 885>>, <<890, 890>>, <<900, 901>>, <<903, 903>>,
    <<1155, 1161>>, <<1369, 1369>>, <<1375, 1375>>, <<1425, 1469>>,
    <<1471, 1471>>, <<1473, 1474>>, <<1476, 1477>>, <<1479, 1479>>,
    <<1524, 1524>>, <<1536, 1541>>, <<1552, 1562>>, <<1564, 1564>>,
    <<1600, 1600>>, <<1611, 1631>>, <<1648, 1648>>, <<1750, 1757>>,
    <<1759, 1768>>, <<1770, 1773>>, <<1807, 1807>>, <<1809, 1809>>,
    <<1840, 1866>>, <<1958, 1968>>, <<2027, 2037>>, <<2042, 2042>>,
    <<2045, 2045>>, <<2070, 2093>>, <<2137, 2139>>, <<2184, 2184>>,
    <<2192, 2193>>, <<2200, 2207>>, <<2249, 2306>>, <<2362, 2362>>,
    <<2364, 2364>>, <<2369, 2376>>, <<2381, 2381>>, <<2385, 2391>>,
    <<2402, 2403>>, <<2417, 2417>>, <<2433, 2433>>, <<2492, 2492>>,
    <<2497, 2500>>, <<2509, 2509>>, <<2530, 2531>>, <<2558, 2558>>,
    <<2561, 2562>>, <<2620, 2620>>, <<2625, 2626>>, <<2631, 2632>>,
    <<2635, 2637>>, <<2641, 2641>>, <<2672, 2673>>, <<2677, 2677>>,
    <<2689, 2690>>, <<2748, 2748>>, <<2753, 2757>>, <<2759, 2760>>,
    <<2765, 2765>>, <<2786, 2787>>, <<2810, 2815>>, <<2817, 2817>>,
    <<2876, 2876>>, <<2879, 2879>>, <<2881, 2884>>, <<2893, 2893>>,
    <<2901, 2902>>, <<2914, 2915>>, <<2946, 2946>>, <<3008, 3008>>,
    <<3021, 3021>>, <<3072, 3072>>, <<3076, 3076>>, <<3132, 3132>>,
    <<3134, 3136>>, <<3142, 3144>>, <<3146, 3149>>, <<3157, 3158>>,
    <<3170, 3171>>, <<3201, 3201>>, <<3260, 3260>>, <<3263, 3263>>,
    <<3270, 3270>>, <<3276, 3277>>, <<3298, 3299>>, <<3328, 3329>>,
    <<3387, 3388>>, <<3393, 3396>>, <<3405, 3405>>, <<3426, 3427>>,
    <<3457, 3457>>, <<3530, 3530>>, <<3538, 3540>>, <<3542, 3542>>,
    <<3633, 3633>>, <<3636, 3642>>, <<3654, 3662>>, <<3761, 3761>>,
    <<3764, 3772>>, <<3782, 3782>>, <<3784, 3789>>, <<3864, 3865>>,
    <<3893, 3893>>, <<3895, 3895>>, <<3897, 3897>>, <<3953, 3966>>,
    <<3968, 3972>>, <<3974, 3975>>, <<3981, 3991>>, <<3993, 4028>>,
    <<4038, 4038>>, <<4141, 4144>>, <<4146, 4151>>, <<4153, 4154>>,
    <<4157, 4158>>, <<4184, 4185>>, <<4190, 4192>>, <<4209, 4212>>,
    <<4226, 4226>>, <<4229, 4230>>, <<4237, 4237>>, <<4253, 4253>>,
    <<4348, 4348>>, <<4957, 4959>>, <<5906, 5908>>, <<5938, 5939>>,
    <<5970, 5971>>, <<6002, 6003>>, <<6068, 6069>>, <<6071, 6077>>,
    <<6086, 6086>>, <<6089, 6099>>, <<6103, 6103>>, <<6109, 6109>>,
    <<6155, 6159>>, <<6211, 6211>>, <<6277, 6278>>, <<6313, 6313>>,
    <<6432, 6434>>, <<6439, 6440>>, <<6450, 6450>>, <<6457, 6459>>,
    <<6679, 6680>>, <<6683, 6683>>, <<6742, 6742>>, <<6744, 6750>>,
    <<6752, 6752>>, <<6754, 6754>>, <<6757, 6764>>, <<6771, 6780>>,
    <<6783, 6783>>, <<6823, 6823>>, <<6832, 6862>>, <<6912, 6915>>,
    <<6964, 6964>>, <<6966, 6970>>, <<6972, 6972>>, <<6978, 6978>>,
    <<7019, 7027>>, <<7040, 7041>>, <<7074, 7077>>, <<7080, 7081>>,
    <<7083, 7085>>, <<7142, 7142>>, <<7144, 7145>>, <<7149, 7149>>,
    <<7151, 7153>>, <<7212, 7219>>, <<7222, 7223>>, <<7288, 7293>>,
    <<7376, 7378>>, <<7380, 7392>>, <<7394, 7400>>, <<7405, 7405>>,
    <<7412, 7412>>, <<7416, 7417>>, <<7468, 7530>>, <<7544, 7544>>,
    <<7579, 7679>>, <<8125, 8125>>, <<8127, 8129>>, <<8141, 8143>>,
    <<8157, 8159>>, <<8173, 8175>>, <<8189, 8190>>, <<8203, 8207>>,
    <<8216, 8217>>, <<8228, 8228>>, <<8231, 8231>>, <<8234, 8238>>,
    <<8288, 8292>>, <<8294, 8303>>, <<8305, 8305>>, <<8319, 8319>>,
    <<8336, 8348>>, <<8400, 8432>>, <<11388, 11389>>, <<11503, 11505>>,
    <<11631, 11631>>, <<11647, 11647>>, <<11744, 11775>>, <<11823, 11823>>,
    <<12293, 12293>>, <<12330, 12333>>, <<12337, 12341>>, <<12347, 12347>>,
    <<12441, 12446>>, <<12540, 12542>>, <<40981, 40981>>, <<42232, 42237>>,
    <<42508, 42508>>, <<42607, 42610>>, <<42612, 42621>>, <<42623, 42623>>,
    <<42652, 42655>>, <<42736, 42737>>, <<42752, 42785>>, <<42864, 42864>>,
    <<42888, 42890>>, <<42994, 42996>>, <<43000, 43001>>, <<43010, 43010>>,
    <<43014, 43014>>, <<43019, 43019>>, <<43045, 43046>>, <<43052, 43052>>,
    <<43204, 43205>>, <<43232, 43249>>, <<43263, 43263>>, <<43302, 43309>>,
    <<43335, 43345>>, <<43392, 43394>>, <<43443, 43443>>, <<43446, 43449>>,
    <<43452, 43453>>, <<43471, 43471>>, <<43493, 43494>>, <<43561, 43566>>,
    <<43569, 43570>>, <<43573, 43574>>, <<43587, 43587>>, <<43596, 43596>>,
    <<43632, 43632>>, <<43644, 43644>>, <<43696, 43696>>, <<43698, 43700>>,
    <<43703, 43704>>, <<43710, 43711>>, <<43713, 43713>>, <<43741, 43741>>,
    <<43756, 43757>>, <<43763, 43764>>, <<43766, 43766>>, <<43867, 43871>>,
    <<43881, 43883>>, <<44005, 44005>>, <<44008, 44008>>, <<44013, 44013>>,
    <<64286, 64286>>, <<64434, 64450>>, <<65024, 65039>>, <<65043, 65043>>,
    <<65056, 65071>>, <<65106, 65106>>, <<65109, 65109>>, <<65279, 65279>>,
    <<65287, 65287>>, <<65294, 65294>>, <<65306, 65306>>, <<65342, 65342>>,
    <<65344, 65344>>, <<65392, 65392>>, <<65438, 65439>>, <<65507, 65507>>,
    <<65529, 65531>>, <<66045, 66045>>, <<66272, 66272>>, <<66422, 66426>>,
    <<67456, 67461>>, <<67463, 67504>>, <<67506, 67514>>, <<68097, 68099>>,
    <<68101, 68102>>, <<68108, 68111>>, <<68152, 68154>>, <<68159, 68159>>,
    <<68325, 68326>>, <<68900, 68903>>, <<69291, 69292>>, <<69446, 69456>>,
    <<69506, 69509>>, <<69633, 69633>>, <<69688, 69702>>, <<69744, 69744>>,
    <<69747, 69748>>, <<69759, 69761>>, <<69811, 69814>>, <<69817, 69818>>,
    <<69821, 69821>>, <<69826, 69826>>, <<69837, 69837>>, <<69888, 69890>>,
    <<69927, 69931>>, <<69933, 69940>>, <<70003, 70003>>, <<70016, 70017>>,
    <<70070, 70078>>, <<70089, 70092>>, <<70095, 70095>>, <<70191, 70193>>,
    <<70196, 70196>>, <<70198, 70199>>, <<70206, 70206>>, <<70367, 70367>>,
    <<70371, 70378>>, <<70400, 70401>>, <<70459, 70460>>, <<70464, 70464>>,
    <<70502, 70508>>, <<70512, 70516>>, <<70712, 70719>>, <<70722, 70724>>,
    <<70726, 70726>>, <<70750, 70750>>, <<70835, 70840>>, <<70842, 70842>>,
    <<70847, 70848>>, <<70850, 70851>>, <<71090, 71093>>, <<71100, 71101>>,
    <<71103, 71104>>, <<71132, 71133>>, <<71219, 71226>>, <<71229, 71229>>,
    <<71231, 71232>>, <<71339, 71339>>, <<71341, 71341>>, <<71344, 71349>>,
    <<71351, 71351>>, <<71453, 71455>>, <<71458, 71461>>, <<71463, 71467>>,
    <<71727, 71735>>, <<71737, 71738>>, <<71995, 71996>>, <<71998, 71998>>,
    <<72003, 72003>>, <<72148, 72151>>, <<72154, 72155>>, <<72160, 72160>>,
    <<72193, 72202>>, <<72243, 72248>>, <<72251, 72254>>, <<72263, 72263>>,
    <<72273, 72278>>, <<72281, 72283>>, <<72330, 72342>>, <<72344, 72345>>,
    <<72752, 72758>>, <<72760, 72765>>, <<72767, 72767>>, <<72850, 72871>>,
    <<72874, 72880>>, <<72882, 72883>>, <<72885, 72886>>, <<73009, 73014>>,
    <<73018, 73018>>, <<73020, 73021>>, <<73023, 73029>>, <<73031, 73031>>,
    <<73104, 73105>>, <<73109, 73109>>, <<73111, 73111>>, <<73459, 73460>>,
    <<78896, 78904>>, <<92912, 92916>>, <<92976, 92982>>, <<92992, 92995>>,
    <<94031, 94031>>, <<94095, 94111>>, <<94176, 94177>>, <<94179, 94180>>,
    <<110576, 110579>>, <<110581, 110587>>, <<110589, 110590>>,
    <<113821, 113822>>, <<113824, 113827>>, <<118528, 118573>>,
    <<118576, 118598>>, <<119143, 119145>>, <<119155, 119170>>,
    <<119173, 119179>>, <<119210, 119213>>, <<119362, 119364>>,
    <<121344, 121398>>, <<121403, 121452>>, <<121461, 121461>>,
    <<121476, 121476>>, <<121499, 121503>>, <<121505, 121519>>,
    <<122880, 122886>>, <<122888, 122904>>, <<122907, 122913>>,
    <<122915, 122916>>, <<122918, 122922>>, <<123184, 123197>>,
    <<123566, 123566>>, <<123628, 123631>>, <<125136, 125142>>,
    <<125252, 125259>>, <<127995, 127999>>, <<917505, 917505>>,
    <<917536, 917631>>, <<917760, 917999>> }

LowerRanges == {
    <<65, 90, 1, 32>>, <<192, 214, 1, 32>>, <<216, 222, 1, 32>>,
    <<256, 302, 2, 1>>, <<306, 310, 2, 1>>, <<313, 327, 2, 1>>,
    <<330, 374, 2, 1>>, <<376, 376, 1, -121>>, <<377, 381, 2, 1>>,
    <<385, 385, 1, 210>>, <<386, 388, 2, 1>>, <<390, 390, 1, 206>>,
    <<391, 391, 1, 1>>, <<393, 394, 1, 205>>, <<395, 395, 1, 1>>,
    <<398, 398, 1, 79>>, <<399, 399, 1, 202>>, <<400, 400, 1, 203>>,
    <<401, 401, 1, 1>>, <<403, 403, 1, 205>>, <<404, 404, 1, 207>>,
    <<406, 406, 1, 211>>, <<407, 407, 1, 209>>, <<408, 408, 1, 1>>,
    <<412, 412, 1, 211>>, <<413, 413, 1, 213>>, <<415, 415, 1, 214>>,
    <<416, 420, 2, 1>>, <<422, 422, 1, 218>>, <<423, 423, 1, 1>>,
    <<425, 425, 1, 218>>, <<428, 428, 1, 1>>, <<430, 430, 1, 218>>,
    <<431, 431, 1, 1>>, <<433, 434, 1, 217>>, <<435, 437, 2, 1>>,
    <<439, 439, 1, 219>>, <<440, 440, 1, 1>>, <<444, 444, 1, 1>>,
    <<452, 452, 1, 2>>, <<453, 453, 1, 1>>, <<455, 455, 1, 2>>,
    <<456, 456, 1, 1>>, <<458, 458, 1, 2>>, <<459, 475, 2, 1>>,
    <<478, 494, 2, 1>>, <<497, 497, 1, 2>>, <<498, 500, 2, 1>>,
    <<502, 502, 1, -97>>, <<503, 503, 1, -56>>, <<504, 542, 2, 1>>,
    <<544, 544, 1, -130>>, <<546, 562, 2, 1>>, <<570, 570, 1, 10795>>,
    <<571, 571, 1, 1>>, <<573, 573, 1, -163>>, <<574, 574, 1, 10792>>,
    <<577, 577, 1, 1>>, <<579, 579, 1, -195>>, <<580, 580, 1, 69>>,
    <<581, 581, 1, 71>>, <<582, 590, 2, 1>>, <<880, 882, 2, 1>>,
    <<886, 886, 1, 1>>, <<895, 895, 1, 116>>, <<902, 902, 1, 38>>,
    <<904, 906, 1, 37>>, <<908, 908, 1, 64>>, <<910, 911, 1, 63>>,
    <<913, 929, 1, 32>>, <<931, 939, 1, 32>>, <<975, 975, 1, 8>>,
    <<984, 1006, 2, 1>>, <<1012, 1012, 1, -60>>, <<1015, 1015, 1, 1>>,
    <<1017, 1017, 1, -7>>, <<1018, 1018, 1, 1>>, <<1021, 1023, 1, -130>>,
    <<1024, 1039, 1, 80>>, <<1040, 1071, 1, 32>>, <<1120, 1152, 2, 1>>,
    <<1162, 1214, 2, 1>>, <<1216, 1216, 1, 15>>, <<1217, 1229, 2, 1>>,
    <<1232, 1326, 2, 1>>, <<1329, 1366, 1, 48>>, <<4256, 4293, 1, 7264>>,
    <<4295, 4295, 1, 7264>>, <<4301, 4301, 1, 7264>>,
    <<5024, 5103, 1, 38864>>, <<5104, 5109, 1, 8>>,
    <<7312, 7354, 1, -3008>>, <<7357, 7359, 1, -3008>>,
    <<7680, 7828, 2, 1>>, <<7838, 7838, 1, -7615>>, <<7840, 7934, 2, 1>>,
    <<7944, 7951, 1, -8>>, <<7960, 7965, 1, -8>>, <<7976, 7983, 1, -8>>,
    <<7992, 7999, 1, -8>>, <<8008, 8013, 1, -8>>, <<8025, 8031, 2, -8>>,
    <<8040, 8047, 1, -8>>, <<8072, 8079, 1, -8>>, <<8088, 8095, 1, -8>>,
    <<8104, 8111, 1, -8>>, <<8120, 8121, 1, -8>>, <<8122, 8123, 1, -74>>,
    <<8124, 8124, 1, -9>>, <<8136, 8139, 1, -86>>, <<8140, 8140, 1, -9>>,
    <<8152, 8153, 1, -8>>, <<8154, 8155, 1, -100>>, <<8168, 8169, 1, -8>>,
    <<8170, 8171, 1, -112>>, <<8172, 8172, 1, -7>>,
    <<8184, 8185, 1, -128>>, <<8186, 8187, 1, -126>>,
    <<8188, 8188, 1, -9>>, <<8486, 8486, 1, -7517>>,
    <<8490, 8490, 1, -8383>>, <<8491, 8491, 1, -8262>>,
    <<8498, 8498, 1, 28>>, <<8544, 8559, 1, 16>>, <<8579, 8579, 1, 1>>,
    <<9398, 9423, 1, 26>>, <<11264, 11311, 1, 48>>, <<11360, 11360, 1, 1>>,
    <<11362, 11362, 1, -10743>>, <<11363, 11363, 1, -3814>>,
    <<11364, 11364, 1, -10727>>, <<11367, 11371, 2, 1>>,
    <<11373, 11373, 1, -10780>>, <<11374, 11374, 1, -10749>>,
    <<11375, 11375, 1, -10783>>, <<11376, 11376, 1, -10782>>,
    <<11378, 11378, 1, 1>>, <<11381, 11381, 1, 1>>,
    <<11390, 11391, 1, -10815>>, <<11392, 11490, 2, 1>>,
    <<11499, 11501, 2, 1>>, <<11506, 11506, 1, 1>>, <<42560, 42604, 2, 1>>,
    <<42624, 42650, 2, 1>>, <<42786, 42798, 2, 1>>, <<42802, 42862, 2, 1>>,
    <<42873, 42875, 2, 1>>, <<42877, 42877, 1, -35332>>,
    <<42878, 42886, 2, 1>>, <<42891, 42891, 1, 1>>,
    <<42893, 42893, 1, -42280>>, <<42896, 42898, 2, 1>>,
    <<42902, 42920, 2, 1>>, <<42922, 42922, 1, -42308>>,
    <<42923, 42923, 1, -42319>>, <<42924, 42924, 1, -42315>>,
    <<42925, 42925, 1, -42305>>, <<42926, 42926, 1, -42308>>,
    <<42928, 42928, 1, -42258>>, <<42929, 42929, 1, -42282>>,
    <<42930, 42930, 1, -42261>>, <<42931, 42931, 1, 928>>,
    <<42932, 42946, 2, 1>>, <<42948, 42948, 1, -48>>,
    <<42949, 42949, 1, -42307>>, <<42950, 42950, 1, -35384>>,
    <<42951, 42953, 2, 1>>, <<42960, 42960, 1, 1>>, <<42966, 42968, 2, 1>>,
    <<42997, 42997, 1, 1>>, <<65313, 65338, 1, 32>>,
    <<66560, 66599, 1, 40>>, <<66736, 66771, 1, 40>>,
    <<66928, 66938, 1, 39>>, <<66940, 66954, 1, 39>>,
    <<66956, 66962, 1, 39>>, <<66964, 66965, 1, 39>>,
    <<68736, 68786, 1, 64>>, <<71840, 71871, 1, 32>>,
    <<93760, 93791, 1, 32>>, <<125184, 125217, 1, 34>> }

Cased(c) == \E r \in CasedRanges : r[1] <= c /\ c <= r[2]

CaseIgnorable(c) == \E r \in CaseIgnorableRanges : r[1] <= c /\ c <= r[2]

\* The lower case of one code point, as a sequence of code points: in ASCII
\* 'A'..'Z' are 32 below their lower case; U+0130 becomes 'i' followed by
\* U+0307; a code point of LowerRanges is moved by the offset of its range;
\* the other code points are kept.
lower_cp(c) ==
    LET mapped == {r \in LowerRanges :
                      r[1] <= c /\ c <= r[2] /\ (c - r[1]) % r[3] = 0}
    IN IF c < 128 THEN (IF c \in 65..90 THEN <<c + 32>> ELSE <<c>>)
       ELSE IF c = 304 THEN <<105, 775>>
       ELSE IF mapped = {} THEN <<c>>
       ELSE <<c + (CHOOSE r \in mapped : TRUE)[4]>>

\* The capital sigma at position i ends a word: the nearest code point
\* before it that is not looked through is a cased letter, and the nearest
\* one after it, if any, is not.
final_sigma(cps, i) ==
    LET before == {j \in 1..(i - 1) : ~CaseIgnorable(cps[j])}
        after == {j \in (i + 1)..Len(cps) : ~CaseIgnorable(cps[j])}
    IN /\ before # {}
       /\ Cased(cps[CHOOSE j \in before : \A k \in before : k <= j])
       /\ \/ after = {}
          \/ ~Cased(cps[CHOOSE j \in after : \A k \in after : j <= k])

\* The lower case of cps from position i on: a capital sigma becomes the
\* final sigma U+03C2 at the end of a word and U+03C3 elsewhere.
RECURSIVE lower_cps(_, _)
lower_cps(cps, i) ==
    IF i > Len(cps) THEN <<>>
    ELSE (IF cps[i] = 931
          THEN IF final_sigma(cps, i) THEN <<962>> ELSE <<963>>
          ELSE lower_cp(cps[i])) \o lower_cps(cps, i + 1)

\* str.lower().  Only a str has the method: see raises_lower.
lower(s) == Str(lower_cps(s[2], 1))

\* x.lower() raises AttributeError when x is not a str.
raises_lower(x) == ~is_str(x)

\* Python truthiness of a request value: None, "" and 0 are falsy.
truthy(x) ==
    IF x = None THEN FALSE
    ELSE IF is_str(x) THEN x[2] # <<>>
    ELSE x[2] # <<0>>

\* a < b on sequences of code points: lexicographic, a proper prefix is smaller.
RECURSIVE cps_lt(_, _)
cps_lt(a, b) ==
    IF b = <<>> THEN FALSE
    ELSE IF a = <<>> THEN TRUE
    ELSE IF Head(a) = Head(b) THEN cps_lt(Tail(a), Tail(b))
    ELSE Head(a) < Head(b)

\* a < b on str.
str_lt(a, b) == cps_lt(a[2], b[2])

\* needle in hay, on str.
str_in(needle, hay) ==
    \E i \in 0..(Len(hay[2]) - Len(needle[2])) :
        SubSeq(hay[2], i + 1, i + Len(needle[2])) = needle[2]

--------------------------------------------------------------------------
(* Lists *)

Reverse(s) == [i \in 1..Len(s) |-> s[Len(s) + 1 - i]]

\* x in lst, on list: some element equals x.
list_contains(lst, x) == \E i \in 1..Len(lst) : lst[i] = x

RemoveAt(lst, i) == SubSeq(lst, 1, i - 1) \o SubSeq(lst, i + 1, Len(lst))

\* The position of the first element equal to x (x is in lst).
list_index(lst, x) ==
    CHOOSE i \in 1..Len(lst) :
        /\ lst[i] = x
        /\ \A j \in 1..(i - 1) : lst[j] # x

\* list.remove(x): drops the first element equal to x (x is in lst).
list_remove(lst, x) == RemoveAt(lst, list_index(lst, x))

\* list.append(x)
list_append(lst, x) == Append(lst, x)

--------------------------------------------------------------------------
(* get_posts: sorted(posts, key=..., reverse=...) *)

get_title(post) == lower(post.title)

get_content(post) == lower(post.content)

sort_key(post, field) ==
    IF field = "title" THEN get_title(post) ELSE get_content(post)

\* sorted works on pairs [key, item], the key being what the key function
\* returned for the item.  x put behind every pair whose key is not greater
\* than its own:
RECURSIVE insert_sorted(_, _)
insert_sorted(x, s) ==
    IF s = <<>> THEN <<x>>
    ELSE IF str_lt(x.key, Head(s).key)
         THEN <<x>> \o s
         ELSE <<Head(s)>> \o insert_sorted(x, Tail(s))

\* list.sort(): ascending and stable.
RECURSIVE stable_sort(_)
stable_sort(pairs) ==
    IF pairs = <<>> THEN <<>>
    ELSE insert_sorted(pairs[Len(pairs)],
                       stable_sort(SubSeq(pairs, 1, Len(pairs) - 1)))

\* The items in the order of their keys: with reverse the list is reversed,
\* sorted and reversed again, which keeps equal keys in their original order.
sorted_by_key(pairs, reverse) ==
    LET result == IF reverse THEN Reverse(stable_sort(Reverse(pairs)))
                  ELSE stable_sort(pairs)
    IN [i \in 1..Len(result) |-> result[i].item]

\* The JSON body of a request, as request.get_json() returns it: a dict with
\* its 'title' and 'content' (None for a key it does not have), or a value
\* that is not a dict.
Object(title, content) == <<"object", [title |-> title, content |-> content]>>
JsonArray == <<"array", <<>>>>
JsonNull == <<"null", <<>>>>

\* data.get(key) raises AttributeError when data is not a dict.
raises_get(data) == data[1] # "object"

\* data.get(key), on a dict.
dict_get(data, key) == data[2][key]

\* The answer to a request whose handler raised AttributeError.
InternalServerError == [status |-> 500, body |-> [exception |-> "AttributeError"]]

\* The answer to a request whose handler raised ValueError (list.remove(x)
\* with x not in the list).
ValueError == [status |-> 500, body |-> [exception |-> "ValueError"]]

\* What the handlers return.  A message is kept as its f-string, with the
\* post_id it is formatted with next to it.
RequiredFields == [status |-> 400,
                   body |-> [error |-> "Please fill out required fields"]]
NothingChanged == [status |-> 400,
                   body |-> [error |-> "Bad request: Nothing was changed"]]
QueryRequired == [status |-> 400,
                  body |-> [error |-> "Please provide title or content query"]]
NotFound(post_id) ==
    [status |-> 404,
     body |-> [error |-> "Post with id ({post_id}) do not exist.",
               post_id |-> post_id]]
Deleted(post_id) ==
    [status |-> 200,
     body |-> [success |-> "Post with id ({post_id}) has been deleted successfully.",
               post_id |-> post_id]]
Updated(post_id, message) ==
    [status |-> 200, body |-> [message |-> message, post_id |-> post_id]]

\* The local variables of a handler call: pc is the step it is at ("idle"
\* when the thread serves no request), req the request, it the position of
\* the iterator of its for loop (or of the list being serialised), n the id
\* computed for the new post, post the post dict it holds, lst the list it
\* builds (posts, search_lst), keys the results of the key function and out
\* the posts jsonify has serialised.
NoPost == <<"none", 0>>
Idle == [pc |-> "idle", req |-> [op |-> "none"], it |-> 0, n |-> 0,
         post |-> NoPost, lst |-> <<>>, keys |-> <<>>, out |-> <<>>]

Threads == {1, 2}

--------------------------------------------------------------------------
(* State after the module is loaded *)

Init ==
    /\ POSTS = << [id |-> 1, title |-> FirstTitle, content |-> FirstContent],
                  [id |-> 2, title |-> SecondTitle, content |-> SecondContent] >>
    /\ request = [op |-> "none"]
    /\ response = [status |-> 0]
    /\ deleted = FALSE
    /\ overlapped = FALSE
    /\ threads = [t \in Threads |-> Idle]

--------------------------------------------------------------------------
(* Expressions of the handlers *)

\* The field sorted by: 'title', 'content', or "none" for any other sort.
sort_field(sort_tag) ==
    IF sort_tag = StrTitle THEN "title"
    ELSE IF sort_tag = StrContent THEN "content" ELSE "none"

\* reverse, from request.args.get('direction', 'asc').
sort_reverse(direction_arg) ==
    LET direction_tag == IF direction_arg = None THEN StrAsc ELSE direction_arg
    IN lower(direction_tag) = StrDesc

\* Variant of new_post_id: len(POSTS).
new_post_id_len(posts) == Len(posts)

\* 'id': len(POSTS) + 1
new_post_id(posts) == Len(posts) + 1

\* The message of the success path, by the returns it is built in.
update_message(new_title, new_content) ==
    IF truthy(new_content)
    THEN IF truthy(new_title)
         THEN "title and content of post ({post_id}) was updated."
         ELSE "content of post ({post_id}) was updated."
    ELSE "title of post ({post_id}) was updated."

--------------------------------------------------------------------------
(* The server, a thread for each request *)

\* A local variable that holds a post dict: At(i) is the dict at position i
\* of POSTS; Gone(v) is a dict that has been removed from POSTS, of value v.
\* (Of two threads, only one can hold a dict that was removed: what it
\* writes to it afterwards no one reads, and is not kept.)
At(i) == <<"at", i>>
Gone(v) == <<"gone", v>>

\* The value of the dict.
deref(ref) == IF ref[1] = "at" THEN POSTS[ref[2]] ELSE ref[2]

\* The local variable, once the dict at position k has been removed from POSTS.
after_remove(ref, k) ==
    IF ref[1] # "at" THEN ref
    ELSE IF ref[2] = k THEN Gone(POSTS[k])
    ELSE IF ref[2] > k THEN At(ref[2] - 1)
    ELSE ref

locals_after_remove(f, k) ==
    [f EXCEPT !.post = after_remove(@, k),
              !.lst = [i \in 1..Len(f.lst) |-> after_remove(f.lst[i], k)]]

\* post[key] = value
setitem(ref, key, value) ==
    IF ref[1] = "at" THEN [POSTS EXCEPT ![ref[2]][key] = value] ELSE POSTS

\* The thread is at the step pc of its handler; a response that a handler
\* returned is sent before any thread goes on.
at(t, pc) == request.op = "none" /\ threads[t].pc = pc

\* The thread goes on with the local variables f.
goto(t, f) == threads' = [threads EXCEPT ![t] = f]

\* The handler returns: the response is sent and the thread is free.
returns(t, resp) ==
    /\ threads' = [threads EXCEPT ![t] = Idle]
    /\ request' = threads[t].req
    /\ response' = resp

\* The request makes add_post append a post.
appends(req) ==
    /\ req.op = "add_post"
    /\ ~raises_get(req.data)
    /\ truthy(dict_get(req.data, "title"))
    /\ truthy(dict_get(req.data, "content"))

\* A free thread takes a request and enters its handler.  The second
\* conjunct keeps the registry within MaxPosts.
receive(t, req) ==
    /\ at(t, "idle")
    /\ appends(req) =>
          Len(POSTS) + Cardinality({u \in Threads : appends(threads[u].req)})
              < MaxPosts
    /\ goto(t, [Idle EXCEPT !.pc = req.op, !.req = req])
    /\ overlapped' = (overlapped \/ \E u \in Threads : threads[u].pc # "idle")
    /\ UNCHANGED <<POSTS, request, response, deleted>>

\* get_posts: posts = POSTS.copy()
get_posts_copy(t) ==
    LET f == threads[t]
        posts == [i \in 1..Len(POSTS) |-> At(i)]
    IN /\ at(t, "get_posts")
       /\ goto(t, [f EXCEPT !.lst = posts, !.it = 1,
                            !.pc = IF sort_field(f.req.sort) = "none" \/ posts = <<>>
                                   THEN "jsonify" ELSE "key"])
       /\ UNCHANGED <<POSTS, request, response, deleted, overlapped>>

\* get_posts: sorted calls the key function on the next element of posts;
\* with the last key it sorts.
get_posts_key(t) ==
    LET f == threads[t]
        field == sort_field(f.req.sort)
        post == deref(f.lst[f.it])
        keys == Append(f.keys, sort_key(post, field))
    IN /\ at(t, "key")
       /\ IF raises_lower(post[field])
          THEN returns(t, InternalServerError)
          ELSE /\ goto(t, IF f.it < Len(f.lst)
                          THEN [f EXCEPT !.keys = keys, !.it = @ + 1]
                          ELSE [f EXCEPT
                                  !.lst = sorted_by_key(
                                              [i \in 1..Len(f.lst) |->
                                                  [key |-> keys[i], item |-> f.lst[i]]],
                                              sort_reverse(f.req.direction)),
                                  !.keys = <<>>, !.it = 1, !.pc = "jsonify"])
               /\ UNCHANGED <<request, response>>
       /\ UNCHANGED <<POSTS, deleted, overlapped>>

\* get_posts, search_post: jsonify(posts), jsonify(search_lst) serialises the
\* next dict of the list; after the last one the handler returns.
jsonify_list(t) ==
    LET f == threads[t]
    IN /\ at(t, "jsonify")
       /\ IF f.it <= Len(f.lst)
          THEN /\ goto(t, [f EXCEPT !.out = Append(@, deref(f.lst[f.it])),
                                    !.it = @ + 1])
               /\ UNCHANGED <<request, response>>
          ELSE returns(t, [status |-> 200, body |-> f.out])
       /\ UNCHANGED <<POSTS, deleted, overlapped>>

\* add_post: the body is checked; 'id': len(POSTS) + 1
add_post_len(t) ==
    LET f == threads[t]
        data == f.req.data
    IN /\ at(t, "add_post")
       /\ IF raises_get(data)
          THEN returns(t, InternalServerError)
          ELSE IF ~truthy(dict_get(data, "title")) \/ ~truthy(dict_get(data, "content"))
          THEN returns(t, RequiredFields)
          ELSE /\ goto(t, [f EXCEPT !.n = new_post_id(POSTS), !.pc = "append"])
               /\ UNCHANGED <<request, response>>
       /\ UNCHANGED <<POSTS, deleted, overlapped>>

\* add_post: POSTS.append(new_post)
add_post_append(t) ==
    LET f == threads[t]
        new_post == [id |-> f.n, title |-> dict_get(f.req.data, "title"),
                     content |-> dict_get(f.req.data, "content")]
    IN /\ at(t, "append")
       /\ POSTS' = list_append(POSTS, new_post)
       /\ goto(t, [f EXCEPT !.post = At(Len(POSTS) + 1), !.n = 0,
                            !.pc = "jsonify_post"])
       /\ UNCHANGED <<request, response, deleted, overlapped>>

\* add_post: return jsonify(new_post), 201
add_post_jsonify(t) ==
    LET f == threads[t]
    IN /\ at(t, "jsonify_post")
       /\ returns(t, [status |-> 201, body |-> deref(f.post)])
       /\ UNCHANGED <<POSTS, deleted, overlapped>>

\* delete_post: the for loop takes the next post and compares its id.
delete_post_next(t) ==
    LET f == threads[t]
    IN /\ at(t, "delete_post")
       /\ IF f.it >= Len(POSTS)
          THEN returns(t, NotFound(f.req.post_id))
          ELSE /\ goto(t, IF POSTS[f.it + 1].id = f.req.post_id
                          THEN [f EXCEPT !.post = At(f.it + 1), !.it = 0,
                                         !.pc = "remove"]
                          ELSE [f EXCEPT !.it = @ + 1])
               /\ UNCHANGED <<request, response>>
       /\ UNCHANGED <<POSTS, deleted, overlapped>>

\* delete_post: POSTS.remove(post), which raises ValueError when no element
\* of POSTS equals post any more.
delete_post_remove(t) ==
    LET f == threads[t]
        post == deref(f.post)
    IN /\ at(t, "remove")
       /\ IF list_contains(POSTS, post)
          THEN /\ POSTS' = list_remove(POSTS, post)
               /\ threads' = [u \in Threads |->
                                 IF u = t THEN Idle
                                 ELSE locals_after_remove(threads[u],
                                                          list_index(POSTS, post))]
               /\ request' = f.req
               /\ response' = Deleted(f.req.post_id)
               /\ deleted' = TRUE
          ELSE /\ returns(t, ValueError)
               /\ UNCHANGED <<POSTS, deleted>>
       /\ UNCHANGED overlapped

\* update_post: data.get, then the for loop takes the next post and compares
\* its id; at the post with the id the body is checked.
update_post_next(t) ==
    LET f == threads[t]
        data == f.req.data
    IN /\ at(t, "update_post")
       /\ IF raises_get(data)
          THEN returns(t, InternalServerError)
          ELSE IF f.it >= Len(POSTS)
          THEN returns(t, NotFound(f.req.post_id))
          ELSE IF POSTS[f.it + 1].id # f.req.post_id
          THEN /\ goto(t, [f EXCEPT !.it = @ + 1])
               /\ UNCHANGED <<request, response>>
          ELSE IF ~truthy(dict_get(data, "title")) /\ ~truthy(dict_get(data, "content"))
          THEN returns(t, NothingChanged)
          ELSE /\ goto(t, [f EXCEPT !.post = At(f.it + 1), !.it = 0,
                                    !.pc = IF truthy(dict_get(data, "title"))
                                           THEN "set_title" ELSE "set_content"])
               /\ UNCHANGED <<request, response>>
       /\ UNCHANGED <<POSTS, deleted, overlapped>>

\* update_post: post['title'] = new_title
update_post_title(t) ==
    LET f == threads[t]
        new_title == dict_get(f.req.data, "title")
        new_content == dict_get(f.req.data, "content")
    IN /\ at(t, "set_title")
       /\ POSTS' = setitem(f.post, "title", new_title)
       /\ IF truthy(new_content)
          THEN /\ goto(t, [f EXCEPT !.pc = "set_content"])
               /\ UNCHANGED <<request, response>>
          ELSE returns(t, Updated(f.req.post_id,
                                  update_message(new_title, new_content)))
       /\ UNCHANGED <<deleted, overlapped>>

\* update_post: post['content'] = new_content
update_post_content(t) ==
    LET f == threads[t]
        new_title == dict_get(f.req.data, "title")
        new_content == dict_get(f.req.data, "content")
    IN /\ at(t, "set_content")
       /\ POSTS' = setitem(f.post, "content", new_content)
       /\ returns(t, Updated(f.req.post_id, update_message(new_title, new_content)))
       /\ UNCHANGED <<deleted, overlapped>>

\* search_post: the query is checked; the for loop takes the next post.
search_post_next(t) ==
    LET f == threads[t]
    IN /\ at(t, "search_post")
       /\ IF ~truthy(f.req.title) /\ ~truthy(f.req.content)
          THEN returns(t, QueryRequired)
          ELSE /\ goto(t, IF f.it >= Len(POSTS)
                          THEN [f EXCEPT !.post = NoPost, !.it = 1, !.pc = "jsonify"]
                          ELSE [f EXCEPT !.post = At(f.it + 1), !.it = @ + 1,
                                         !.pc = IF truthy(f.req.title)
                                                THEN "by_title" ELSE "by_content"])
               /\ UNCHANGED <<request, response>>
       /\ UNCHANGED <<POSTS, deleted, overlapped>>

\* search_post: title.lower() in post['title'].lower()
search_post_title(t) ==
    LET f == threads[t]
        post_title == deref(f.post).title
    IN /\ at(t, "by_title")
       /\ IF raises_lower(post_title)
          THEN returns(t, InternalServerError)
          ELSE /\ goto(t, [f EXCEPT
                             !.lst = IF str_in(lower(f.req.title), lower(post_title))
                                     THEN list_append(@, f.post) ELSE @,
                             !.pc = IF truthy(f.req.content)
                                    THEN "by_content" ELSE "search_post"])
               /\ UNCHANGED <<request, response>>
       /\ UNCHANGED <<POSTS, deleted, overlapped>>

\* search_post: content.lower() in post['content'].lower()
search_post_content(t) ==
    LET f == threads[t]
        post_content == deref(f.post).content
    IN /\ at(t, "by_content")
       /\ IF raises_lower(post_content)
          THEN returns(t, InternalServerError)
          ELSE /\ goto(t, [f EXCEPT
                             !.pc = IF str_in(lower(f.req.content), lower(post_content))
                                    THEN "not_in" ELSE "search_post"])
               /\ UNCHANGED <<request, response>>
       /\ UNCHANGED <<POSTS, deleted, overlapped>>

\* search_post: if post not in search_lst: search_lst.append(post)
search_post_not_in(t) ==
    LET f == threads[t]
        search_lst == [i \in 1..Len(f.lst) |-> deref(f.lst[i])]
    IN /\ at(t, "not_in")
       /\ goto(t, [f EXCEPT
                     !.lst = IF ~list_contains(search_lst, deref(f.post))
                             THEN list_append(@, f.post) ELSE @,
                     !.pc = "search_post"])
       /\ UNCHANGED <<POSTS, request, response, deleted, overlapped>>

\* The response is sent; the threads go on.
send_response ==
    /\ request.op # "none"
    /\ request' = [op |-> "none"]
    /\ response' = [status |-> 0]
    /\ UNCHANGED <<POSTS, deleted, overlapped, threads>>

\* The requests the threads take.
Requests ==
    {[op |-> "get_posts", sort |-> StrTitle, direction |-> Str_DESC],
     [op |-> "add_post", data |-> Object(Num_5, Str_b)],
     [op |-> "add_post", data |-> JsonNull],
     [op |-> "delete_post", post_id |-> 1],
     [op |-> "delete_post", post_id |-> 3],
     [op |-> "update_post", post_id |-> 2, data |-> Object(Str_I_dot, Str_b)],
     [op |-> "update_post", post_id |-> 3, data |-> Object(Str_I_dot, Str_b)],
     [op |-> "update_post", post_id |-> 2, data |-> Object(None, None)],
     [op |-> "update_post", post_id |-> 3, data |-> JsonArray],
     [op |-> "search_post", title |-> Str_I, content |-> Str_B]}

\* A thread takes a request or makes the next step of its handler.
Next ==
    \/ \E t \in Threads, req \in Requests : receive(t, req)
    \/ \E t \in Threads : get_posts_copy(t)
    \/ \E t \in Threads : get_posts_key(t)
    \/ \E t \in Threads : jsonify_list(t)
    \/ \E t \in Threads : add_post_len(t)
    \/ \E t \in Threads : add_post_append(t)
    \/ \E t \in Threads : add_post_jsonify(t)
    \/ \E t \in Threads : delete_post_next(t)
    \/ \E t \in Threads : delete_post_remove(t)
    \/ \E t \in Threads : update_post_next(t)
    \/ \E t \in Threads : update_post_title(t)
    \/ \E t \in Threads : update_post_content(t)
    \/ \E t \in Threads : search_post_next(t)
    \/ \E t \in Threads : search_post_title(t)
    \/ \E t \in Threads : search_post_content(t)
    \/ \E t \in Threads : search_post_not_in(t)
    \/ send_response

Spec == Init /\ [][Next]_vars

--------------------------------------------------------------------------
(* Vocabulary of the properties below *)

\* The title and the content a request body carries: absent when the body
\* has no such key, as in a body that is not an object.
TitleOf(data) == IF data[1] = "object" THEN data[2].title ELSE None
ContentOf(data) == IF data[1] = "object" THEN data[2].content ELSE None

\* A request value that is absent or an empty string.
Missing(x) == x = None \/ x = Empty

\* A request value that is given non-empty: neither absent, nor an empty
\* string, nor another falsy JSON value (the number 0), which the handlers
\* treat as not given ("absent, empty string, or otherwise falsy").
Given(x) == x \notin {None, Empty, Num_0}

HasId(posts, post_id) == \E i \in 1..Len(posts) : posts[i].id = post_id

\* Position of the first post, in registry order, with that id.
FirstWithId(posts, post_id) ==
    CHOOSE k \in 1..Len(posts) :
        /\ posts[k].id = post_id
        /\ \A j \in 1..(k - 1) : posts[j].id # post_id

\* after is before with the element at position k taken out.
RemovedAt(before, after, k) ==
    /\ Len(after) = Len(before) - 1
    /\ \A j \in 1..(k - 1) : after[j] = before[j]
    /\ \A j \in k..Len(after) : after[j] = before[j + 1]

\* The orders of 1..n: pi[i] is the registry position shown at place i.
Orders(n) == {pi \in [1..n -> 1..n] : \A i, j \in 1..n : pi[i] = pi[j] => i = j}

\* C1: whenever Create Post succeeds, the id of the new post differs from the
\* id of every post already in the registry at the moment of its creation,
\* the step of add_post that appends the post.
C1_CreatedIdIsFresh ==
    [][\A t \in Threads :
          (threads[t].pc = "append" /\ threads'[t].pc = "jsonify_post")
              => \A i \in 1..Len(POSTS) : POSTS[i].id # POSTS'[Len(POSTS')].id]_vars

\* C2: a Create Post request with non-empty title and content answers 201,
\* returns a post that carries the given title and content, has
\* id = registry length + 1, and appends that post.  The handler reads the
\* length, appends and answers in three steps, and the property is stated
\* step by step: the first computes the id n from the length of the registry
\* it reads; the second makes the registry one longer by the post of id n
\* with the given title and content, put last, the posts that were there
\* keeping their values and order; the third answers 201 with a post that
\* carries the given title and content.
C2_CreateAppendsInFlight ==
    [][\A t \in Threads :
          LET f == threads[t]
              title == TitleOf(f.req.data)
              content == ContentOf(f.req.data)
          IN (f.req.op = "add_post" /\ Given(title) /\ Given(content)) =>
                /\ (f.pc = "add_post" /\ threads'[t].pc # "add_post")
                      => threads'[t].pc = "append" /\ threads'[t].n = Len(POSTS) + 1
                /\ (f.pc = "append" /\ threads'[t].pc # "append")
                      => POSTS' = Append(POSTS, [id |-> f.n, title |-> title,
                                                 content |-> content])
                /\ (f.pc = "jsonify_post" /\ threads'[t].pc # "jsonify_post")
                      => /\ response'.status = 201
                         /\ response'.body.title = title
                         /\ response'.body.content = content]_vars

\* C3: a Create Post request whose title or content is absent or empty answers
\* 400 with an error object and leaves the registry as it was.
C3_CreateRejectsMissing ==
    [][(request'.op = "add_post"
            /\ (Missing(TitleOf(request'.data)) \/ Missing(ContentOf(request'.data))))
        => /\ response'.status = 400
           /\ DOMAIN response'.body = {"error"}
           /\ POSTS' = POSTS]_vars

\* C4: Delete Post answers 404 exactly when no post has the requested id, and
\* then leaves the registry as it was; otherwise it answers 200.  The registry
\* is the one the handler answers in: POSTS at the step that returns.
C4_DeleteNotFoundIff ==
    [][request'.op = "delete_post"
        => LET found == HasId(POSTS, request'.post_id)
           IN /\ response'.status = 404 <=> ~found
              /\ ~found => POSTS' = POSTS
              /\ found => response'.status = 200]_vars

\* C5: Delete Post for an id in the registry removes exactly the first post,
\* in registry order, with that id: the registry is one shorter and all other
\* posts keep their values and order (also when several posts share the id).
\* The registry is the one the handler answers in: POSTS at the step that
\* removes and returns, or that returns without removing.
C5_DeleteRemovesFirstMatch ==
    [][(request'.op = "delete_post" /\ HasId(POSTS, request'.post_id))
        => RemovedAt(POSTS, POSTS', FirstWithId(POSTS, request'.post_id))]_vars

\* C6: Update Post for an id no post has answers 404 whatever the body holds;
\* for an id in the registry with title and content both absent or empty it
\* answers 400.  Neither changes the registry.  The registry is the one the
\* handler answers in: POSTS at the step that returns.
C6_UpdateFailures ==
    [][request'.op = "update_post"
        => LET found == HasId(POSTS, request'.post_id)
               empty == /\ Missing(TitleOf(request'.data))
                        /\ Missing(ContentOf(request'.data))
           IN /\ ~found => (response'.status = 404 /\ POSTS' = POSTS)
              /\ (found /\ empty) => (response'.status = 400 /\ POSTS' = POSTS)]_vars

\* C7: a successful Update Post names in its message exactly the fields given
\* non-empty and overwrites exactly those fields of the first post, in
\* registry order, with the requested id; everything else stays as it was.
\* The handler finds the post, writes the title and the content and answers
\* in steps of their own, and the property is stated step by step: a step
\* that writes changes nothing but that field of the first post with the
\* requested id, to the value given non-empty; the step that answers 200
\* names in its message exactly the fields given non-empty; the steps that
\* look for the post leave the registry as it is.
C7_UpdateFrameInFlight ==
    [][\A t \in Threads :
          LET f == threads[t]
              post_id == f.req.post_id
              title == TitleOf(f.req.data)
              content == ContentOf(f.req.data)
              k == FirstWithId(POSTS, post_id)
              msg == response'.body.message
          IN (f.req.op = "update_post" /\ threads'[t].pc # f.pc) =>
                /\ (f.pc = "set_title" /\ POSTS' # POSTS)
                      => /\ Given(title)
                         /\ HasId(POSTS, post_id)
                         /\ POSTS' = [POSTS EXCEPT ![k].title = title]
                /\ (f.pc = "set_content" /\ POSTS' # POSTS)
                      => /\ Given(content)
                         /\ HasId(POSTS, post_id)
                         /\ POSTS' = [POSTS EXCEPT ![k].content = content]
                /\ f.pc = "update_post" => POSTS' = POSTS
                /\ (threads'[t].pc = "idle" /\ response'.status = 200)
                      => /\ msg = "title and content of post ({post_id}) was updated."
                               <=> (Given(title) /\ Given(content))
                         /\ msg = "content of post ({post_id}) was updated."
                               <=> (~Given(title) /\ Given(content))
                         /\ msg = "title of post ({post_id}) was updated."
                               <=> (Given(title) /\ ~Given(content))
                         /\ response'.body.post_id = post_id]_vars

\* C8: a Search Posts request with a non-empty query value returns exactly the
\* registry filtered, in order, by "the title query is given and is a
\* case-insensitive substring of the title, or the content query is given and
\* is a case-insensitive substring of the content": every matching entry once,
\* also entries equal to one another; the registry is not changed.  The
\* registry is the one the handler answers in: POSTS at the step that returns.
C8_SearchIsFilter ==
    [][(request'.op = "search_post"
            /\ (Given(request'.title) \/ Given(request'.content)))
        => LET Matches(post) ==
                   \/ /\ Given(request'.title)
                      /\ post.title[1] = "str"
                      /\ str_in(lower(request'.title), lower(post.title))
                   \/ /\ Given(request'.content)
                      /\ post.content[1] = "str"
                      /\ str_in(lower(request'.content), lower(post.content))
           IN /\ response'.status = 200
              /\ response'.body = SelectSeq(POSTS, Matches)
              /\ POSTS' = POSTS]_vars

\* C9: List Posts answers 200 with every registry post exactly once and does
\* not change the registry.  With sort 'title' or 'content' the list is in
\* order of the lower-cased field, descending when direction lower-cased is
\* 'desc' and ascending otherwise, equal keys staying in registry order in
\* both directions; with any other sort it is in registry order.  The
\* registry is the one the handler answers in: POSTS at the step that returns.
C9_ListIsStableSort ==
    [][request'.op = "get_posts"
        => LET n == Len(POSTS)
               body == response'.body
               desc == /\ request'.direction # None
                       /\ lower(request'.direction) = StrDesc
               Key(i) == IF request'.sort = StrTitle
                         THEN lower(POSTS[i].title)
                         ELSE lower(POSTS[i].content)
               Before(i, j) ==
                   \/ IF desc THEN str_lt(Key(j), Key(i)) ELSE str_lt(Key(i), Key(j))
                   \/ Key(i) = Key(j) /\ i < j
           IN /\ response'.status = 200
              /\ POSTS' = POSTS
              /\ Len(body) = n
              /\ \E pi \in Orders(n) :
                    /\ \A i \in 1..n : body[i] = POSTS[pi[i]]
                    /\ IF request'.sort \in {StrTitle, StrContent}
                       THEN \A i, j \in 1..n : i < j => Before(pi[i], pi[j])
                       ELSE \A i \in 1..n : pi[i] = i]_vars

\* C10: as long as requests were served one after another, none taken while
\* another was being served, and no Delete request has succeeded, the post
\* at position i of the registry has id i.
C10_IdsArePositions ==
    (~deleted /\ ~overlapped) => \A i \in 1..Len(POSTS) : POSTS[i].id = i

\* A post was created and then updated, the requests served one after
\* another and nothing deleted.
C10_Witness ==
    /\ ~deleted
    /\ ~overlapped
    /\ Len(POSTS) = 3
    /\ request.op = "update_post"
    /\ response.status = 200
    /\ request.post_id = 3

====
